---------------------------- MODULE Spec2Model ----------------------------
(***************************************************************************)
(* Model of openaix.ClientFromEnv (src/client.go).                         *)
(*                                                                         *)
(* Go strings are modelled as sequences of one-character strings, so that  *)
(* comparison, concatenation and "contains" are computed character by      *)
(* character.  The process environment is a partial function from variable *)
(* names to strings: a name outside its domain is an unset variable.       *)
(* Pointers are addresses into a heap (a sequence of objects); address 0   *)
(* is nil.  Each invocation of ClientFromEnv is a process that executes    *)
(* the function line by line.                                              *)
(***************************************************************************)
EXTENDS Naturals, Sequences, FiniteSets

VARIABLES
    env,        \* the process environment
    writes,     \* number of Setenv/Unsetenv calls made so far by the host program
    pc,         \* pc[p]: the line invocation p is about to execute
    kind,       \* kind[p], endpoint[p], version[p], key[p]: locals of invocation p
    endpoint,
    version,
    key,
    retClient,  \* retClient[p]: the *openai.Client returned by invocation p
    retErr,     \* retErr[p]: the error returned by invocation p
    heap,       \* the objects allocated so far
    clean       \* clean[p]: the environment was not modified since invocation p began

vars == <<env, writes, pc, kind, endpoint, version, key, retClient, retErr, heap, clean>>

----------------------------------------------------------------------------
(* Bounds *)

NProcs == 2
MaxEnvWrites == 1

Procs == 1..NProcs

----------------------------------------------------------------------------
(* String literals *)

EmptyStr == <<>>
StrOpenai == <<"o","p","e","n","a","i">>
StrAzure == <<"a","z","u","r","e">>
StrBogus == <<"b","o","g","u","s">>
StrAzureCap == <<"A","z","u","r","e">>
StrOpenaiUpper == <<"O","P","E","N","A","I">>
StrOpenaiLead == <<" ","o","p","e","n","a","i">>
StrAzureTrail == <<"a","z","u","r","e"," ">>
StrKey == <<"s","k","-","t","e","s","t">>
StrEndpoint == <<"h","t","t","p","s",":","/","/","x",".","o","p","e","n","a","i",".","a","z","u","r","e",".","c","o","m">>
StrVersion == <<"2","0","2","4","-","0","5","-","0","1">>

\* errors.New("openaix: unknown OPENAI_TYPE: " + kind)
ErrPrefix == <<"o","p","e","n","a","i","x",":"," ","u","n","k","n","o","w","n"," ","O","P","E","N","A","I","_","T","Y","P","E",":"," ">>

\* go-openai: the defaults the wrapped library seeds its configurations with
OpenaiAPIURLv1 == <<"h","t","t","p","s",":","/","/","a","p","i",".","o","p","e","n","a","i",".","c","o","m","/","v","1">>
DefaultAzureAPIVersion == <<"2","0","2","3","-","0","5","-","1","5">>
APITypeOpenAI == <<"O","P","E","N","_","A","I">>
APITypeAzure == <<"A","Z","U","R","E">>

----------------------------------------------------------------------------
(* The environment *)

EnvNames == {"OPENAI_TYPE", "OPENAI_ENDPOINT", "OPENAI_API_VERSION", "OPENAI_API_KEY"}

EnvValues(name) ==
    CASE name = "OPENAI_TYPE" ->
            {EmptyStr, StrOpenai, StrAzure, StrBogus, StrAzureCap,
             StrOpenaiUpper, StrOpenaiLead, StrAzureTrail}
      [] name = "OPENAI_ENDPOINT" -> {EmptyStr, StrEndpoint}
      [] name = "OPENAI_API_VERSION" -> {EmptyStr, StrVersion}
      [] name = "OPENAI_API_KEY" -> {EmptyStr, StrKey}

\* the values the host program of the concurrent scenarios writes
HostValues(name) ==
    CASE name = "OPENAI_TYPE" -> {StrOpenai, StrAzure, StrBogus}
      [] name = "OPENAI_ENDPOINT" -> {StrEndpoint}
      [] name = "OPENAI_API_VERSION" -> {StrVersion}
      [] name = "OPENAI_API_KEY" -> {StrKey}

AllValues == UNION {EnvValues(n) : n \in EnvNames}

\* every environment: each variable unset, or set to one of its values
Environments ==
    UNION {{e \in [D -> AllValues] : \A n \in D : e[n] \in EnvValues(n)} :
           D \in SUBSET EnvNames}

\* the fully configured environments the host program of the concurrent scenarios starts from
HostEnvironments ==
    {e \in Environments : DOMAIN e = EnvNames /\ \A n \in EnvNames : e[n] \in HostValues(n)}

\* os.Getenv: the value of the variable, or "" when it is unset
Getenv(e, name) == IF name \in DOMAIN e THEN e[name] ELSE EmptyStr

----------------------------------------------------------------------------
(* String functions used to state the properties *)

\* strings.HasPrefix
HasPrefix(s, pre) == Len(s) >= Len(pre) /\ SubSeq(s, 1, Len(pre)) = pre

\* strings.Contains
Contains(s, sub) ==
    \E i \in 1..(Len(s) + 1) :
        i + Len(sub) - 1 <= Len(s) /\ SubSeq(s, i, i + Len(sub) - 1) = sub

\* what follows the prefix pre in s
TrimPrefix(s, pre) == SubSeq(s, Len(pre) + 1, Len(s))

ToLowerChar(c) ==
    CASE c = "A" -> "a" [] c = "E" -> "e" [] c = "I" -> "i" [] c = "N" -> "n"
      [] c = "O" -> "o" [] c = "P" -> "p" [] c = "R" -> "r" [] c = "U" -> "u"
      [] c = "Z" -> "z" [] OTHER -> c

\* strings.ToLower
ToLower(s) == [i \in 1..Len(s) |-> ToLowerChar(s[i])]

\* strings.TrimSpace
TrimSpace(s) ==
    LET idx == {i \in 1..Len(s) : s[i] # " "}
    IN  IF idx = {} THEN EmptyStr
        ELSE SubSeq(s, CHOOSE i \in idx : \A j \in idx : i <= j,
                       CHOOSE i \in idx : \A j \in idx : i >= j)

----------------------------------------------------------------------------
(* The heap *)

Nil == 0

HTTPClientObj == [type |-> "http.Client"]
ClientObj(config) == [type |-> "Client", config |-> config]
ErrorObj(s) == [type |-> "errorString", s |-> s]

\* openai.DefaultConfig(authToken); http is the address of its fresh &http.Client{}
DefaultConfig(authToken, http) ==
    [authToken |-> authToken, BaseURL |-> OpenaiAPIURLv1, APIType |-> APITypeOpenAI,
     APIVersion |-> EmptyStr, HTTPClient |-> http]

\* openai.DefaultAzureConfig(apiKey, baseURL)
DefaultAzureConfig(apiKey, baseURL, http) ==
    [authToken |-> apiKey, BaseURL |-> baseURL, APIType |-> APITypeAzure,
     APIVersion |-> DefaultAzureAPIVersion, HTTPClient |-> http]

Outcome(h, c, e) == [heap |-> h, client |-> c, err |-> e]

\* AzureCase without line 23: the library's default api-version is kept
AzureCaseKeepDefault(h, k, e, v) ==
    LET h1 == Append(h, HTTPClientObj)
        config == DefaultAzureConfig(k, e, Len(h1))
        h2 == Append(h1, ClientObj(config))
    IN  Outcome(h2, Len(h2), Nil)

\* case "azure": lines 22-24
AzureCase(h, k, e, v) ==
    LET h1 == Append(h, HTTPClientObj)
        config == DefaultAzureConfig(k, e, Len(h1))
        config2 == [config EXCEPT !.APIVersion = v]
        h2 == Append(h1, ClientObj(config2))
    IN  Outcome(h2, Len(h2), Nil)

\* case "openai": line 26, openai.NewClient(key)
OpenaiCase(h, k) ==
    LET h1 == Append(h, HTTPClientObj)
        h2 == Append(h1, ClientObj(DefaultConfig(k, Len(h1))))
    IN  Outcome(h2, Len(h2), Nil)

\* line 29 without the selector value appended to the message
UnknownCaseNoValue(h, t) ==
    LET h1 == Append(h, ErrorObj(ErrPrefix))
    IN  Outcome(h1, Nil, Len(h1))

\* line 29
UnknownCase(h, t) ==
    LET h1 == Append(h, ErrorObj(ErrPrefix \o t))
    IN  Outcome(h1, Nil, Len(h1))

\* the switch with the selector lower-cased and trimmed before the match
SwitchKindNormalized(h, t, e, v, k) ==
    IF ToLower(TrimSpace(t)) = StrAzure THEN AzureCase(h, k, e, v)
    ELSE IF ToLower(TrimSpace(t)) = StrOpenai THEN OpenaiCase(h, k)
    ELSE UnknownCase(h, t)

\* the switch with the standard client pointed at OPENAI_ENDPOINT when it is set
SwitchKindEndpointLeak(h, t, e, v, k) ==
    IF t = StrAzure THEN AzureCase(h, k, e, v)
    ELSE IF t = StrOpenai
         THEN LET out == OpenaiCase(h, k)
                  c == out.heap[out.client].config
                  c2 == IF e = EmptyStr THEN c ELSE [c EXCEPT !.BaseURL = e]
              IN  Outcome([out.heap EXCEPT ![out.client] = ClientObj(c2)], out.client, Nil)
         ELSE UnknownCase(h, t)

\* the switch with a default branch that builds a standard client for any selector
SwitchKindFallthrough(h, t, e, v, k) ==
    IF t = StrAzure THEN AzureCase(h, k, e, v)
    ELSE OpenaiCase(h, k)

\* the switch with a package-level client that is built once and handed out again
SwitchKindCached(h, t, e, v, k) ==
    LET built == {a \in 1..Len(h) : h[a].type = "Client"}
    IN  IF t \in {StrAzure, StrOpenai} /\ built # {}
        THEN Outcome(h, CHOOSE a \in built : TRUE, Nil)
        ELSE IF t = StrAzure THEN AzureCase(h, k, e, v)
        ELSE IF t = StrOpenai THEN OpenaiCase(h, k)
        ELSE UnknownCase(h, t)

\* the switch statement and the final return, lines 20-29
SwitchKind(h, t, e, v, k) ==
    IF t = StrAzure THEN AzureCase(h, k, e, v)
    ELSE IF t = StrOpenai THEN OpenaiCase(h, k)
    ELSE UnknownCase(h, t)

----------------------------------------------------------------------------
(* Initial state and actions *)

Stack ==
    /\ writes = 0
    /\ pc = [p \in Procs |-> "L14"]
    /\ kind = [p \in Procs |-> EmptyStr]
    /\ endpoint = [p \in Procs |-> EmptyStr]
    /\ version = [p \in Procs |-> EmptyStr]
    /\ key = [p \in Procs |-> EmptyStr]
    /\ retClient = [p \in Procs |-> Nil]
    /\ retErr = [p \in Procs |-> Nil]
    /\ heap = <<>>
    /\ clean = [p \in Procs |-> TRUE]

Init == env \in Environments /\ Stack

InitHost == env \in HostEnvironments /\ Stack

\* line 14 behind a package-level mutex that is held until the invocation returns
ReadKindLocked(p) ==
    /\ pc[p] = "L14"
    /\ \A q \in Procs \ {p} : pc[q] \in {"L14", "ret"}
    /\ kind' = [kind EXCEPT ![p] = Getenv(env, "OPENAI_TYPE")]
    /\ pc' = [pc EXCEPT ![p] = "L15"]
    /\ UNCHANGED <<env, writes, endpoint, version, key, retClient, retErr, heap, clean>>

\* line 14: kind = os.Getenv("OPENAI_TYPE")
ReadKind(p) ==
    /\ pc[p] = "L14"
    /\ kind' = [kind EXCEPT ![p] = Getenv(env, "OPENAI_TYPE")]
    /\ pc' = [pc EXCEPT ![p] = "L15"]
    /\ UNCHANGED <<env, writes, endpoint, version, key, retClient, retErr, heap, clean>>

\* line 15: endpoint = os.Getenv("OPENAI_ENDPOINT")
ReadEndpoint(p) ==
    /\ pc[p] = "L15"
    /\ endpoint' = [endpoint EXCEPT ![p] = Getenv(env, "OPENAI_ENDPOINT")]
    /\ pc' = [pc EXCEPT ![p] = "L16"]
    /\ UNCHANGED <<env, writes, kind, version, key, retClient, retErr, heap, clean>>

\* line 16: version = os.Getenv("OPENAI_API_VERSION")
ReadVersion(p) ==
    /\ pc[p] = "L16"
    /\ version' = [version EXCEPT ![p] = Getenv(env, "OPENAI_API_VERSION")]
    /\ pc' = [pc EXCEPT ![p] = "L17"]
    /\ UNCHANGED <<env, writes, kind, endpoint, key, retClient, retErr, heap, clean>>

\* line 17: key = os.Getenv("OPENAI_API_KEY")
ReadKey(p) ==
    /\ pc[p] = "L17"
    /\ key' = [key EXCEPT ![p] = Getenv(env, "OPENAI_API_KEY")]
    /\ pc' = [pc EXCEPT ![p] = "L20"]
    /\ UNCHANGED <<env, writes, kind, endpoint, version, retClient, retErr, heap, clean>>

\* lines 20-29: the switch and the return
Switch(p) ==
    /\ pc[p] = "L20"
    /\ LET out == SwitchKind(heap, kind[p], endpoint[p], version[p], key[p])
       IN  /\ heap' = out.heap
           /\ retClient' = [retClient EXCEPT ![p] = out.client]
           /\ retErr' = [retErr EXCEPT ![p] = out.err]
    /\ pc' = [pc EXCEPT ![p] = "ret"]
    /\ UNCHANGED <<env, writes, kind, endpoint, version, key, clean>>

\* a step of invocation p of ClientFromEnv
Step(p) == ReadKind(p) \/ ReadEndpoint(p) \/ ReadVersion(p) \/ ReadKey(p) \/ Switch(p)

\* every invocation that has begun (or returned) has seen an environment that is now gone
Dirty == [p \in Procs |-> clean[p] /\ pc[p] = "L14"]

\* the host program sets a variable (not done by ClientFromEnv)
Setenv(name, value) ==
    /\ writes < MaxEnvWrites
    /\ Getenv(env, name) # value \/ name \notin DOMAIN env
    /\ env' = [n \in DOMAIN env \cup {name} |-> IF n = name THEN value ELSE env[n]]
    /\ writes' = writes + 1
    /\ clean' = Dirty
    /\ UNCHANGED <<pc, kind, endpoint, version, key, retClient, retErr, heap>>

\* the host program unsets a variable
Unsetenv(name) ==
    /\ writes < MaxEnvWrites
    /\ name \in DOMAIN env
    /\ env' = [n \in DOMAIN env \ {name} |-> env[n]]
    /\ writes' = writes + 1
    /\ clean' = Dirty
    /\ UNCHANGED <<pc, kind, endpoint, version, key, retClient, retErr, heap>>

\* invocations of ClientFromEnv against an environment nobody writes
Next ==
    \/ \E p \in Procs : ReadKind(p)
    \/ \E p \in Procs : ReadEndpoint(p)
    \/ \E p \in Procs : ReadVersion(p)
    \/ \E p \in Procs : ReadKey(p)
    \/ \E p \in Procs : Switch(p)

Spec == Init /\ [][Next]_vars

\* invocations of ClientFromEnv while the host program writes the environment
NextHost ==
    \/ \E p \in Procs : ReadKind(p)
    \/ \E p \in Procs : ReadEndpoint(p)
    \/ \E p \in Procs : ReadVersion(p)
    \/ \E p \in Procs : ReadKey(p)
    \/ \E p \in Procs : Switch(p)
    \/ \E name \in EnvNames : \E value \in HostValues(name) : Setenv(name, value)
    \/ \E name \in EnvNames : Unsetenv(name)

SpecHost == InitHost /\ [][NextHost]_vars

TypeOK ==
    /\ env \in Environments
    /\ \A p \in Procs : pc[p] \in {"L14", "L15", "L16", "L17", "L20", "ret"}
    /\ \A p \in Procs : retClient[p] \in 0..Len(heap) /\ retErr[p] \in 0..Len(heap)

----------------------------------------------------------------------------
(* Vocabulary of the properties *)

\* invocation p has returned
Done(p) == pc[p] = "ret"

\* the configuration of the client invocation p returned
Config(p) == heap[retClient[p]].config

\* the message of the error invocation p returned
ErrMsg(p) == heap[retErr[p]].s

Succeeded(p) == Done(p) /\ retClient[p] # Nil /\ retErr[p] = Nil
Failed(p) == Done(p) /\ retClient[p] = Nil /\ retErr[p] # Nil

\* the UnknownProviderKind error
IsUnknownProviderKind(msg) == HasPrefix(msg, ErrPrefix)

\* a handle configured without enterprise fields
IsStandard(c) ==
    c.APIType = APITypeOpenAI /\ c.BaseURL = OpenaiAPIURLv1 /\ c.APIVersion = EmptyStr

IsEnterprise(c) == c.APIType = APITypeAzure

\* two configurations that differ at most in the identity of their http client
ConfigEquiv(c, d) ==
    /\ c.authToken = d.authToken
    /\ c.BaseURL = d.BaseURL
    /\ c.APIType = d.APIType
    /\ c.APIVersion = d.APIVersion

\* the objects reachable from the handle invocation p returned
Reach(p) == {retClient[p], Config(p).HTTPClient}

\* the selector values the specification recognizes
ClosedSet == {EmptyStr, StrOpenai, StrAzure}

EnvKind == Getenv(env, "OPENAI_TYPE")
EnvEndpoint == Getenv(env, "OPENAI_ENDPOINT")
EnvVersion == Getenv(env, "OPENAI_API_VERSION")
EnvKey == Getenv(env, "OPENAI_API_KEY")

----------------------------------------------------------------------------
(* Properties *)

\* C1: with OPENAI_TYPE unset or empty and a non-empty OPENAI_API_KEY, ClientFromEnv
\* succeeds and returns a Standard handle.
C1_EmptySelectorIsStandard ==
    \A p \in Procs :
        Done(p) /\ EnvKind = EmptyStr /\ EnvKey # EmptyStr
            => Succeeded(p) /\ IsStandard(Config(p))

\* C2: for every selector outside {"", "openai", "azure"} and every value of the other
\* variables, ClientFromEnv returns a nil handle and an UnknownProviderKind error whose
\* message contains the selector value.
C2_UnknownSelectorFails ==
    \A p \in Procs :
        Done(p) /\ EnvKind \notin ClosedSet
            => /\ Failed(p)
               /\ IsUnknownProviderKind(ErrMsg(p))
               /\ Contains(ErrMsg(p), EnvKind)

C2_Witness ==
    \E p \in Procs : Failed(p) /\ EnvKind = StrBogus /\ EnvKey = StrKey

\* C3: with OPENAI_TYPE = "azure", ClientFromEnv returns an Enterprise handle built from
\* OPENAI_API_KEY and OPENAI_ENDPOINT whose api-version equals OPENAI_API_VERSION, whatever
\* that value is.
C3_AzureVersionOverridden ==
    \A p \in Procs :
        Done(p) /\ EnvKind = StrAzure
            => /\ Succeeded(p)
               /\ IsEnterprise(Config(p))
               /\ Config(p).authToken = EnvKey
               /\ Config(p).BaseURL = EnvEndpoint
               /\ Config(p).APIVersion = EnvVersion

C3_Witness ==
    \E p \in Procs :
        /\ Succeeded(p) /\ EnvKind = StrAzure
        /\ EnvEndpoint = StrEndpoint /\ EnvKey = StrKey
        /\ EnvVersion = StrVersion /\ Config(p).APIVersion = StrVersion

\* C4: with OPENAI_TYPE = "openai", the handle is a Standard handle built from the key
\* alone: two invocations that read the same key get equivalent handles, whatever
\* endpoint and api-version each of them read.
C4_OpenaiIgnoresEnterpriseValues ==
    \A p, q \in Procs :
        Done(p) /\ Done(q) /\ kind[p] = StrOpenai /\ kind[q] = StrOpenai /\ key[p] = key[q]
            => /\ Succeeded(p) /\ Succeeded(q)
               /\ IsStandard(Config(p))
               /\ Config(p).authToken = key[p]
               /\ ConfigEquiv(Config(p), Config(q))

C4_Witness ==
    \E p, q \in Procs :
        /\ Succeeded(p) /\ Succeeded(q)
        /\ kind[p] = StrOpenai /\ kind[q] = StrOpenai /\ key[p] = key[q]
        /\ endpoint[p] # endpoint[q] \/ version[p] # version[q]

\* C5 as stated: no handle is built from a partially specified configuration (no handle
\* without a key, no Enterprise handle without endpoint and api-version).
C5_OnlyValidatedTuples ==
    \A p \in Procs :
        Done(p) /\ retClient[p] # Nil
            => /\ EnvKey # EmptyStr
               /\ EnvKind = StrAzure => EnvEndpoint # EmptyStr /\ EnvVersion # EmptyStr

\* C5 as amended: a handle is only ever built for a selector of the closed set; key,
\* endpoint and api-version are not validated.
C5_OnlyRecognizedKind ==
    \A p \in Procs : Done(p) /\ retClient[p] # Nil => EnvKind \in ClosedSet

C5_Witness ==
    \E p \in Procs :
        /\ Succeeded(p) /\ EnvKind = StrAzure
        /\ EnvKey = EmptyStr /\ EnvEndpoint = EmptyStr /\ EnvVersion = EmptyStr

\* C6: every invocation ends with (handle, nil) or (nil, error), and the only error is
\* UnknownProviderKind, returned only for a selector outside the closed set.
C6_TwoOutcomesOnlyUnknownKind ==
    \A p \in Procs :
        Done(p)
            => /\ Succeeded(p) \/ Failed(p)
               /\ Failed(p) => IsUnknownProviderKind(ErrMsg(p)) /\ EnvKind \notin ClosedSet

\* C7: ClientFromEnv never changes the environment, and two invocations that ran against
\* the same environment return the same outcome: two errors with the same message, or two
\* equivalent handles that are distinct objects and share none.
C7_SameOutcome ==
    \A p, q \in Procs :
        p # q /\ Done(p) /\ Done(q) /\ clean[p] /\ clean[q]
            => \/ Failed(p) /\ Failed(q) /\ ErrMsg(p) = ErrMsg(q)
               \/ /\ Succeeded(p) /\ Succeeded(q)
                  /\ ConfigEquiv(Config(p), Config(q))
                  /\ Reach(p) \cap Reach(q) = {}

C7_Idempotent ==
    /\ [][(\E p \in Procs : Step(p)) => env' = env]_vars
    /\ []C7_SameOutcome

C7_Witness ==
    \E p, q \in Procs :
        p # q /\ clean[p] /\ clean[q] /\ Succeeded(p) /\ Succeeded(q) /\ writes > 0

\* C8: with a recognized selector, ClientFromEnv returns a handle and a nil error even
\* when key, endpoint or api-version is empty, and passes the empty value through.
C8_NoValidationOfValues ==
    \A p \in Procs :
        /\ Done(p) /\ EnvKind \in ClosedSet
        /\ EnvKey = EmptyStr \/ EnvEndpoint = EmptyStr \/ EnvVersion = EmptyStr
        => /\ Succeeded(p)
           /\ Config(p).authToken = EnvKey
           /\ EnvKind = StrAzure
                => Config(p).BaseURL = EnvEndpoint /\ Config(p).APIVersion = EnvVersion

\* the outcome of a lone invocation against environment e
Sequential(e) ==
    SwitchKind(<<>>, Getenv(e, "OPENAI_TYPE"), Getenv(e, "OPENAI_ENDPOINT"),
               Getenv(e, "OPENAI_API_VERSION"), Getenv(e, "OPENAI_API_KEY"))

\* C9: under any interleaving, an invocation whose environment was not modified returns
\* what a lone call returns for that environment, every handle returned is a fresh
\* object, and an invocation that has not returned can always take its next step.
C9_ConcurrentIndependent ==
    /\ \A p \in Procs :
          Done(p) /\ clean[p]
              => LET seq == Sequential(env)
                 IN  IF seq.err # Nil
                     THEN Failed(p) /\ ErrMsg(p) = seq.heap[seq.err].s
                     ELSE Succeeded(p)
                            /\ ConfigEquiv(Config(p), seq.heap[seq.client].config)
    /\ \A p, q \in Procs :
          p # q /\ Succeeded(p) /\ Succeeded(q) => Reach(p) \cap Reach(q) = {}
    /\ \A p \in Procs : ~Done(p) => ENABLED Step(p)

C9_Witness ==
    \E p, q \in Procs :
        /\ p # q /\ Succeeded(p) /\ clean[p]
        /\ pc[q] = "L20" /\ clean[q] /\ kind[q] = kind[p]

\* C10: a selector that differs from "openai" or "azure" only in letter case or in
\* surrounding whitespace is not recognized: the call fails with UnknownProviderKind
\* carrying the value unchanged.
C10_ExactMatch ==
    \A p \in Procs :
        /\ Done(p)
        /\ EnvKind \notin {StrOpenai, StrAzure}
        /\ ToLower(TrimSpace(EnvKind)) \in {StrOpenai, StrAzure}
        => /\ Failed(p)
           /\ IsUnknownProviderKind(ErrMsg(p))
           /\ TrimPrefix(ErrMsg(p), ErrPrefix) = EnvKind

C10_Witness ==
    \E p \in Procs : Failed(p) /\ EnvKind = StrAzureTrail

=============================================================================
